---- MODULE Spec2Model ----
(***************************************************************************)
(* Notes CRUD API: the request pipeline of src/routes/notes.js,            *)
(* src/middleware/validateNote.js, src/middleware/errorHandler.js,         *)
(* src/services/notesService.js and src/models/Note.js as a state machine. *)
(*                                                                         *)
(* JavaScript values are records [k, n, s]: k is the type tag, n the value *)
(* of a number, s the value of a string.  A string is kept run-length      *)
(* encoded, a sequence of runs [c |-> character, n |-> repetitions], so    *)
(* that strings of 200 or 5000 characters stay small while trim() and      *)
(* .length are still computed character class by character class.          *)
(*                                                                         *)
(* Node runs every handler to completion on one thread and no handler      *)
(* awaits, so one request is one atomic action.                            *)
(***************************************************************************)
EXTENDS Integers, Sequences, FiniteSets, TLC

VARIABLES
  notes,     \* NotesService.notes: the collection, a sequence of Note records
  now,       \* the system clock, in milliseconds
  issued,    \* how many ids uuidv4() has returned
  nodeEnv,   \* process.env.NODE_ENV
  res,       \* the response to the last request
  created,   \* successful creates since the collection was last emptied by clearAllNotes
  removed,   \* successful deletes since then
  deleted,   \* the ids of the notes a DELETE removed
  requests,  \* the requests submitted in parallel: idle, pending or done with their response
  held       \* the note value a direct caller of notesService got from its last call

vars == <<notes, now, issued, nodeEnv, res, created, removed, deleted, requests, held>>

\* ------------------------------------------------------------------ bounds
\* uuidv4() is called at most MaxIds times in a behaviour
MaxIds == 2
\* the millisecond clock runs from 0 to MaxClock
MaxClock == 1
\* uuidv4() is called at most MaxValidationIds times in a behaviour of SpecValidation
MaxValidationIds == 1
\* at most MaxRequests requests are submitted in parallel
MaxRequests == 2
\* uuidv4() is called at most MaxUpdateIds times in a behaviour of SpecUpdate
MaxUpdateIds == 1
\* uuidv4() is called at most MaxServiceIds times in a behaviour of SpecService
MaxServiceIds == 2

\* --------------------------------------------------------------- constants
MaxTitleLength == 200
MaxContentLength == 5000

\* ------------------------------------------------------- JavaScript values
Undefined == [k |-> "undefined", n |-> 0, s |-> <<>>]
Null == [k |-> "null", n |-> 0, s |-> <<>>]
Num(n) == [k |-> "number", n |-> n, s |-> <<>>]
Str(s) == [k |-> "string", n |-> 0, s |-> s]
Arr == [k |-> "array", n |-> 0, s |-> <<>>]

Run(c, n) == [c |-> c, n |-> n]

\* ToBoolean: undefined, null, 0 and "" are falsy
Truthy(v) ==
  CASE v.k = "undefined" -> FALSE
    [] v.k = "null" -> FALSE
    [] v.k = "number" -> v.n # 0
    [] v.k = "string" -> v.s # <<>>
    [] OTHER -> TRUE

IsString(v) == v.k = "string"

\* the characters String.prototype.trim removes
IsWhitespace(c) == c \in {" ", "\t", "\n"}

RECURSIVE TrimStart(_)
TrimStart(s) ==
  IF s = <<>> THEN <<>>
  ELSE IF IsWhitespace(Head(s).c) THEN TrimStart(Tail(s)) ELSE s

RECURSIVE TrimEnd(_)
TrimEnd(s) ==
  IF s = <<>> THEN <<>>
  ELSE IF IsWhitespace(s[Len(s)].c) THEN TrimEnd(SubSeq(s, 1, Len(s) - 1)) ELSE s

\* String.prototype.trim
Trim(s) == TrimEnd(TrimStart(s))

\* String.prototype.length
RECURSIVE StrLength(_)
StrLength(s) == IF s = <<>> THEN 0 ELSE Head(s).n + StrLength(Tail(s))

\* ----------------------------------------------------------- request body
\* an object is a function from the keys it holds to their values
EmptyObject == [key \in {} |-> Undefined]

\* req.body: an object, or undefined when nothing has set it
Object(obj) == [defined |-> TRUE, obj |-> obj]
UndefinedBody == [defined |-> FALSE, obj |-> EmptyObject]

\* const { title, content } = req.body, for a req.body that is an object
Field(body, key) == IF key \in DOMAIN body.obj THEN body.obj[key] ELSE Undefined

\* Object.keys(req.body).length
KeyCount(body) == Cardinality(DOMAIN body.obj)

\* express.json() of Express 4 sets req.body to the parsed object, and to {}
\* when the request carries no payload
ParseBody(payload) == IF payload.present THEN Object(payload.obj) ELSE Object(EmptyObject)

\* ------------------------------------------------------------------ errors
MsgNotFound == "Note not found"
MsgRequired == "Title and content are required"
MsgNoFields == "At least one field (title or content) must be provided"
MsgNotAFunction == "trim is not a function"
MsgCannotDestructure == "Cannot destructure property 'title' of 'req.body' as it is undefined."

\* an Error object; NoError stands for "nothing was thrown"
Err(name, message) == [name |-> name, message |-> message, type |-> ""]
NoError == [name |-> "", message |-> "", type |-> ""]

\* String.prototype.includes over the messages this program throws
Includes(message, part) ==
  \/ message = part
  \/ <<message, part>> \in
       { <<MsgRequired, "required">>,
         <<MsgNoFields, "must be provided">>,
         <<MsgNoFields, "At least one field">> }

\* ---------------------------------------------------------------- responses
\* res.status(status).json(body): keys is the set of keys of the JSON body,
\* data the note or notes sent (a single note is a sequence of one)
Response(status, keys, success, error, message, data, count) ==
  [status |-> status, keys |-> keys, success |-> success, error |-> error,
   message |-> message, data |-> data, count |-> count]

NoResponse == Response(0, {}, FALSE, "", "", <<>>, 0)

Failure(status, error, message, withStack) ==
  Response(status,
           {"success", "error", "message"} \cup (IF withStack THEN {"stack"} ELSE {}),
           FALSE, error, message, <<>>, 0)

Success(status, data, message) ==
  Response(status, {"success", "data", "message"}, TRUE, "", message, data, 0)

SuccessList(data, message) ==
  Response(200, {"success", "data", "count", "message"}, TRUE, "", message, data, Len(data))

\* errorHandler without its branch for 'Note not found'
errorHandlerWithoutNotFound(err, env) ==
  LET known == Includes(err.message, "required") \/ Includes(err.message, "must be provided")
  IN Failure(IF known THEN 400 ELSE 500,
             IF known THEN "Bad Request" ELSE "Internal Server Error",
             IF known THEN err.message ELSE "Internal Server Error",
             env = "development")

\* errorHandler sending the error's own message whatever the status
errorHandlerLeaksMessage(err, env) ==
  LET statusCode ==
        IF err.message = MsgNotFound THEN 404
        ELSE IF Includes(err.message, "required") \/ Includes(err.message, "must be provided") THEN 400
        ELSE IF err.name = "ValidationError" THEN 400
        ELSE IF err.type = "entity.parse.failed" THEN 400
        ELSE 500
  IN Failure(statusCode,
             IF statusCode = 404 THEN "Not Found"
             ELSE IF statusCode = 400 THEN "Bad Request" ELSE "Internal Server Error",
             err.message,
             env = "development")

\* errorHandler calling every 400 a 'Validation Error'
errorHandlerValidationCategory(err, env) ==
  LET statusCode ==
        IF err.message = MsgNotFound THEN 404
        ELSE IF Includes(err.message, "required") \/ Includes(err.message, "must be provided") THEN 400
        ELSE IF err.name = "ValidationError" THEN 400
        ELSE IF err.type = "entity.parse.failed" THEN 400
        ELSE 500
      message ==
        IF err.message = MsgNotFound THEN err.message
        ELSE IF Includes(err.message, "required") \/ Includes(err.message, "must be provided") THEN err.message
        ELSE IF err.name = "ValidationError" THEN err.message
        ELSE IF err.type = "entity.parse.failed" THEN "Invalid JSON in request body"
        ELSE "Internal Server Error"
  IN Failure(statusCode,
             IF statusCode = 404 THEN "Not Found"
             ELSE IF statusCode = 400 THEN "Validation Error" ELSE "Internal Server Error",
             message,
             env = "development")

\* errorHandler(err, req, res, next)
errorHandler(err, env) ==
  LET statusCode ==
        IF err.message = MsgNotFound THEN 404
        ELSE IF Includes(err.message, "required") \/ Includes(err.message, "must be provided") THEN 400
        ELSE IF err.name = "ValidationError" THEN 400
        ELSE IF err.type = "entity.parse.failed" THEN 400
        ELSE 500
      message ==
        IF err.message = MsgNotFound THEN err.message
        ELSE IF Includes(err.message, "required") \/ Includes(err.message, "must be provided") THEN err.message
        ELSE IF err.name = "ValidationError" THEN err.message
        ELSE IF err.type = "entity.parse.failed" THEN "Invalid JSON in request body"
        ELSE "Internal Server Error"
  IN Failure(statusCode,
             IF statusCode = 404 THEN "Not Found"
             ELSE IF statusCode = 400 THEN "Bad Request" ELSE "Internal Server Error",
             message,
             env = "development")

\* --------------------------------------------------------------- validator
MsgBodyRequired == "Request body is required"
MsgInvalidTitle == "Title is required and must be a non-empty string"
MsgInvalidContent == "Content is required and must be a non-empty string"
MsgTitleTooLong == "Title must be 200 characters or less"
MsgContentTooLong == "Content must be 5000 characters or less"

\* the checks without the test of the content's type
FailedCheckWithoutContentType(body) ==
  LET title == Field(body, "title")
      content == Field(body, "content")
  IN IF ~body.defined \/ KeyCount(body) = 0 THEN "EmptyBody"
     ELSE IF ~Truthy(title) \/ ~IsString(title) \/ StrLength(Trim(title.s)) = 0
       THEN "InvalidTitle"
     ELSE IF ~Truthy(content) THEN "InvalidContent"
     ELSE IF StrLength(Trim(title.s)) > MaxTitleLength THEN "TitleTooLong"
     ELSE IF StrLength(Trim(content.s)) > MaxContentLength THEN "ContentTooLong"
     ELSE "none"

\* the checks with both length checks ahead of the content check
FailedCheckLengthFirst(body) ==
  LET title == Field(body, "title")
      content == Field(body, "content")
  IN IF ~body.defined \/ KeyCount(body) = 0 THEN "EmptyBody"
     ELSE IF ~Truthy(title) \/ ~IsString(title) \/ StrLength(Trim(title.s)) = 0
       THEN "InvalidTitle"
     ELSE IF StrLength(Trim(title.s)) > MaxTitleLength THEN "TitleTooLong"
     ELSE IF ~Truthy(content) \/ ~IsString(content) \/ StrLength(Trim(content.s)) = 0
       THEN "InvalidContent"
     ELSE IF StrLength(Trim(content.s)) > MaxContentLength THEN "ContentTooLong"
     ELSE "none"

\* the checks with the limits applied to the untrimmed length
FailedCheckUntrimmedLength(body) ==
  LET title == Field(body, "title")
      content == Field(body, "content")
  IN IF ~body.defined \/ KeyCount(body) = 0 THEN "EmptyBody"
     ELSE IF ~Truthy(title) \/ ~IsString(title) \/ StrLength(Trim(title.s)) = 0
       THEN "InvalidTitle"
     ELSE IF ~Truthy(content) \/ ~IsString(content) \/ StrLength(Trim(content.s)) = 0
       THEN "InvalidContent"
     ELSE IF StrLength(title.s) > MaxTitleLength THEN "TitleTooLong"
     ELSE IF StrLength(content.s) > MaxContentLength THEN "ContentTooLong"
     ELSE "none"

\* the checks without the one for an empty body
FailedCheckWithoutEmptyBody(body) ==
  LET title == Field(body, "title")
      content == Field(body, "content")
  IN IF ~Truthy(title) \/ ~IsString(title) \/ StrLength(Trim(title.s)) = 0
       THEN "InvalidTitle"
     ELSE IF ~Truthy(content) \/ ~IsString(content) \/ StrLength(Trim(content.s)) = 0
       THEN "InvalidContent"
     ELSE IF StrLength(Trim(title.s)) > MaxTitleLength THEN "TitleTooLong"
     ELSE IF StrLength(Trim(content.s)) > MaxContentLength THEN "ContentTooLong"
     ELSE "none"

\* the first check of validateNote that fails, or "none"; body is an object
FailedCheck(body) ==
  LET title == Field(body, "title")
      content == Field(body, "content")
  IN IF ~body.defined \/ KeyCount(body) = 0 THEN "EmptyBody"
     ELSE IF ~Truthy(title) \/ ~IsString(title) \/ StrLength(Trim(title.s)) = 0
       THEN "InvalidTitle"
     ELSE IF ~Truthy(content) \/ ~IsString(content) \/ StrLength(Trim(content.s)) = 0
       THEN "InvalidContent"
     ELSE IF StrLength(Trim(title.s)) > MaxTitleLength THEN "TitleTooLong"
     ELSE IF StrLength(Trim(content.s)) > MaxContentLength THEN "ContentTooLong"
     ELSE "none"

\* validateNote(req, res, next): the 400 response it sends, or NoResponse when
\* it calls next().  The destructuring of req.body comes before every check
\* and throws when req.body is undefined; Express hands the error to errorHandler.
validateNote(body, env) ==
  LET failed == FailedCheck(body)
  IN CASE ~body.defined -> errorHandler(Err("TypeError", MsgCannotDestructure), env)
       [] failed = "EmptyBody" -> Failure(400, "Bad Request", MsgBodyRequired, FALSE)
       [] failed = "InvalidTitle" -> Failure(400, "Validation Error", MsgInvalidTitle, FALSE)
       [] failed = "InvalidContent" -> Failure(400, "Validation Error", MsgInvalidContent, FALSE)
       [] failed = "TitleTooLong" -> Failure(400, "Validation Error", MsgTitleTooLong, FALSE)
       [] failed = "ContentTooLong" -> Failure(400, "Validation Error", MsgContentTooLong, FALSE)
       [] OTHER -> NoResponse

\* -------------------------------------------------------------------- Note
\* new Note with the two readings of the clock assigned the other way round
NewNoteSwapsStamps(id, title, content, atCreated, atUpdated) ==
  [id |-> id, title |-> title, content |-> content,
   createdAt |-> atUpdated, updatedAt |-> atCreated]

\* new Note(title, content): createdAt and updatedAt come from two readings
\* of the clock, atCreated and atUpdated
NewNote(id, title, content, atCreated, atUpdated) ==
  [id |-> id, title |-> title, content |-> content,
   createdAt |-> atCreated, updatedAt |-> atUpdated]

\* Note.update writing the fields without stamping updatedAt
NoteUpdateWithoutStamp(note, title, content, at) ==
  [note EXCEPT !.title = IF title # Undefined THEN title.s ELSE @,
               !.content = IF content # Undefined THEN content.s ELSE @]

\* Note.update stamping createdAt as well as updatedAt
NoteUpdateStampsCreatedAt(note, title, content, at) ==
  [note EXCEPT !.title = IF title # Undefined THEN title.s ELSE @,
               !.content = IF content # Undefined THEN content.s ELSE @,
               !.createdAt = at,
               !.updatedAt = at]

\* Note.update(title, content); title and content are JavaScript values
NoteUpdate(note, title, content, at) ==
  [note EXCEPT !.title = IF title # Undefined THEN title.s ELSE @,
               !.content = IF content # Undefined THEN content.s ELSE @,
               !.updatedAt = at]

\* Note.toJSON(): a fresh object holding the five fields
toJSON(note) ==
  [id |-> note.id, title |-> note.title, content |-> note.content,
   createdAt |-> note.createdAt, updatedAt |-> note.updatedAt]

\* ------------------------------------------------------------ NotesService
\* what a service method did: threw err, or returned value and left store
Threw(err, store) == [threw |-> TRUE, err |-> err, store |-> store, value |-> <<>>]
Returned(value, store) == [threw |-> FALSE, err |-> NoError, store |-> store, value |-> value]

\* Array.prototype.findIndex(note => note.id === id), from 1; 0 when there is none
FindIndex(store, id) ==
  IF \E i \in 1..Len(store) : store[i].id = id
    THEN CHOOSE i \in 1..Len(store) :
           /\ store[i].id = id
           /\ \A j \in 1..(i - 1) : store[j].id # id
    ELSE 0

\* splice(index) without a delete count: removes the entry and all after it
SpliceToEnd(store, index) == SubSeq(store, 1, index - 1)

\* Array.prototype.splice(index, 1)
Splice(store, index) ==
  [i \in 1..(Len(store) - 1) |-> IF i < index THEN store[i] ELSE store[i + 1]]

\* v.trim(): only a string has the method
CanTrim(v) == IsString(v)

\* v?.trim(): undefined for undefined and null
\* title?.trim() without the trim
OptionalTrimKeepsWhitespace(v) == IF v.k \in {"undefined", "null"} THEN Undefined ELSE Str(v.s)

OptionalTrim(v) == IF v.k \in {"undefined", "null"} THEN Undefined ELSE Str(Trim(v.s))

\* createNote storing title and content as given, without trim()
createNoteUntrimmed(store, title, content, id, atCreated, atUpdated) ==
  IF ~Truthy(title) \/ ~Truthy(content) THEN Threw(Err("Error", MsgRequired), store)
  ELSE LET note == NewNote(id, title.s, content.s, atCreated, atUpdated)
       IN Returned(<<note>>, Append(store, note))

\* createNote numbering the note by its position instead of drawing a uuid
createNoteNumbersByPosition(store, title, content, id, atCreated, atUpdated) ==
  IF ~Truthy(title) \/ ~Truthy(content) THEN Threw(Err("Error", MsgRequired), store)
  ELSE IF ~CanTrim(title) \/ ~CanTrim(content)
    THEN Threw(Err("TypeError", MsgNotAFunction), store)
  ELSE LET note == NewNote(Len(store) + 1, Trim(title.s), Trim(content.s), atCreated, atUpdated)
       IN Returned(<<note>>, Append(store, note))

\* createNote putting the new note in front (unshift) instead of pushing it
createNoteInFront(store, title, content, id, atCreated, atUpdated) ==
  IF ~Truthy(title) \/ ~Truthy(content) THEN Threw(Err("Error", MsgRequired), store)
  ELSE IF ~CanTrim(title) \/ ~CanTrim(content)
    THEN Threw(Err("TypeError", MsgNotAFunction), store)
  ELSE LET note == NewNote(id, Trim(title.s), Trim(content.s), atCreated, atUpdated)
       IN Returned(<<note>>, <<note>> \o store)

\* createNote writing the new note over the last one instead of pushing it
createNoteOverLast(store, title, content, id, atCreated, atUpdated) ==
  IF ~Truthy(title) \/ ~Truthy(content) THEN Threw(Err("Error", MsgRequired), store)
  ELSE IF ~CanTrim(title) \/ ~CanTrim(content)
    THEN Threw(Err("TypeError", MsgNotAFunction), store)
  ELSE LET note == NewNote(id, Trim(title.s), Trim(content.s), atCreated, atUpdated)
       IN Returned(<<note>>, IF store = <<>> THEN <<note>>
                             ELSE [store EXCEPT ![Len(store)] = note])

\* createNote(title, content); id is the uuid drawn, atCreated and atUpdated the clock readings
createNote(store, title, content, id, atCreated, atUpdated) ==
  IF ~Truthy(title) \/ ~Truthy(content) THEN Threw(Err("Error", MsgRequired), store)
  ELSE IF ~CanTrim(title) \/ ~CanTrim(content)
    THEN Threw(Err("TypeError", MsgNotAFunction), store)
  ELSE LET note == NewNote(id, Trim(title.s), Trim(content.s), atCreated, atUpdated)
       IN Returned(<<note>>, Append(store, note))

\* getAllNotes reversing this.notes in place before mapping it
getAllNotesReversesInPlace(store) ==
  LET reversed == [i \in 1..Len(store) |-> store[Len(store) + 1 - i]]
  IN Returned([i \in 1..Len(store) |-> toJSON(reversed[i])], reversed)

\* getAllNotes()
getAllNotes(store) == Returned([i \in 1..Len(store) |-> toJSON(store[i])], store)

\* getNoteById(id)
getNoteById(store, id) ==
  LET index == FindIndex(store, id)
  IN IF index = 0 THEN Threw(Err("Error", MsgNotFound), store)
     ELSE Returned(<<toJSON(store[index])>>, store)

\* updateNote stamping the note before it trims the fields, so that a trim that
\* throws leaves the new updatedAt behind
updateNoteStampsFirst(store, id, title, content, at) ==
  LET index == FindIndex(store, id)
  IN IF index = 0 THEN Threw(Err("Error", MsgNotFound), store)
     ELSE IF ~Truthy(title) /\ ~Truthy(content) THEN Threw(Err("Error", MsgNoFields), store)
     ELSE IF \/ (title.k \notin {"undefined", "null"} /\ ~CanTrim(title))
             \/ (content.k \notin {"undefined", "null"} /\ ~CanTrim(content))
       THEN Threw(Err("TypeError", MsgNotAFunction),
                  [store EXCEPT ![index] = NoteUpdate(@, Undefined, Undefined, at)])
     ELSE LET updated == NoteUpdate(store[index], OptionalTrim(title), OptionalTrim(content), at)
          IN Returned(<<toJSON(updated)>>, [store EXCEPT ![index] = updated])

\* updateNote stamping updatedAt on every note of the collection
updateNoteStampsAll(store, id, title, content, at) ==
  LET index == FindIndex(store, id)
  IN IF index = 0 THEN Threw(Err("Error", MsgNotFound), store)
     ELSE IF ~Truthy(title) /\ ~Truthy(content) THEN Threw(Err("Error", MsgNoFields), store)
     ELSE IF \/ (title.k \notin {"undefined", "null"} /\ ~CanTrim(title))
             \/ (content.k \notin {"undefined", "null"} /\ ~CanTrim(content))
       THEN Threw(Err("TypeError", MsgNotAFunction), store)
     ELSE LET updated == NoteUpdate(store[index], OptionalTrim(title), OptionalTrim(content), at)
          IN Returned(<<toJSON(updated)>>,
                      [i \in 1..Len(store) |->
                         IF i = index THEN updated ELSE [store[i] EXCEPT !.updatedAt = at]])

\* updateNote putting a newly constructed Note in the place of the found one
updateNoteRebuildsNote(store, id, title, content, at) ==
  LET index == FindIndex(store, id)
  IN IF index = 0 THEN Threw(Err("Error", MsgNotFound), store)
     ELSE IF ~Truthy(title) /\ ~Truthy(content) THEN Threw(Err("Error", MsgNoFields), store)
     ELSE IF \/ (title.k \notin {"undefined", "null"} /\ ~CanTrim(title))
             \/ (content.k \notin {"undefined", "null"} /\ ~CanTrim(content))
       THEN Threw(Err("TypeError", MsgNotAFunction), store)
     ELSE LET changed == NoteUpdate(store[index], OptionalTrim(title), OptionalTrim(content), at)
              updated == NewNote(id, changed.title, changed.content, at, at)
          IN Returned(<<toJSON(updated)>>, [store EXCEPT ![index] = updated])

\* updateNote without the check that a field is given
updateNoteWithoutFieldCheck(store, id, title, content, at) ==
  LET index == FindIndex(store, id)
  IN IF index = 0 THEN Threw(Err("Error", MsgNotFound), store)
     ELSE IF \/ (title.k \notin {"undefined", "null"} /\ ~CanTrim(title))
             \/ (content.k \notin {"undefined", "null"} /\ ~CanTrim(content))
       THEN Threw(Err("TypeError", MsgNotAFunction), store)
     ELSE LET updated == NoteUpdate(store[index], OptionalTrim(title), OptionalTrim(content), at)
          IN Returned(<<toJSON(updated)>>, [store EXCEPT ![index] = updated])

\* updateNote(id, title, content); at is the clock reading
updateNote(store, id, title, content, at) ==
  LET index == FindIndex(store, id)
  IN IF index = 0 THEN Threw(Err("Error", MsgNotFound), store)
     ELSE IF ~Truthy(title) /\ ~Truthy(content) THEN Threw(Err("Error", MsgNoFields), store)
     ELSE IF \/ (title.k \notin {"undefined", "null"} /\ ~CanTrim(title))
             \/ (content.k \notin {"undefined", "null"} /\ ~CanTrim(content))
       THEN Threw(Err("TypeError", MsgNotAFunction), store)
     ELSE LET updated == NoteUpdate(store[index], OptionalTrim(title), OptionalTrim(content), at)
          IN Returned(<<toJSON(updated)>>, [store EXCEPT ![index] = updated])

\* deleteNote returning the first note of the collection instead of the removed one
deleteNoteReturnsFirst(store, id) ==
  LET index == FindIndex(store, id)
  IN IF index = 0 THEN Threw(Err("Error", MsgNotFound), store)
     ELSE Returned(<<toJSON(store[1])>>, Splice(store, index))

\* deleteNote returning the note without removing it
deleteNoteKeepsNote(store, id) ==
  LET index == FindIndex(store, id)
  IN IF index = 0 THEN Threw(Err("Error", MsgNotFound), store)
     ELSE Returned(<<toJSON(store[index])>>, store)

\* deleteNote(id)
deleteNote(store, id) ==
  LET index == FindIndex(store, id)
  IN IF index = 0 THEN Threw(Err("Error", MsgNotFound), store)
     ELSE Returned(<<toJSON(store[index])>>, Splice(store, index))

\* getNotesCount()
getNotesCount(store) == Len(store)

\* ------------------------------------------------------------------ inputs
\* the ids a request can name: 0 is an id that is no uuid ("invalid-id-format"),
\* 1..MaxIds are uuids, issued or not
RequestIds == 0..MaxIds

TitleInputs ==
  { Undefined, Num(123), Str(<<Run(" ", 3)>>),
    Str(<<Run(" ", 2), Run("a", 1), Run(" ", 2)>>) }

ContentInputs ==
  { Undefined, Str(<<Run(" ", 2), Run("c", 1), Run("\n", 1)>>) }

\* the object with the given title and content (Undefined: the key is absent)
\* and, when other holds, one unrelated key
MakeBody(title, content, other) ==
  [key \in (IF title = Undefined THEN {} ELSE {"title"})
           \cup (IF content = Undefined THEN {} ELSE {"content"})
           \cup (IF other THEN {"other"} ELSE {})
     |-> IF key = "title" THEN title ELSE IF key = "content" THEN content ELSE Num(1)]

NoPayload == [present |-> FALSE, obj |-> EmptyObject]
Payload(obj) == [present |-> TRUE, obj |-> obj]

\* the payloads of the requests: none, every pair of a title and a content,
\* {title: null, content: null} and an object holding only an unrelated key
Payloads ==
  {NoPayload, Payload(MakeBody(Null, Null, FALSE)),
   Payload(MakeBody(Undefined, Undefined, TRUE))} \cup
  { Payload(MakeBody(t, c, FALSE)) : t \in TitleInputs, c \in ContentInputs }

\* ------------------------------------------------------------------ routes
\* router.post('/', validateNote, ...)
Post(payload) ==
  LET body == ParseBody(payload)
      rejected == validateNote(body, nodeEnv)
  IN IF rejected # NoResponse
       THEN /\ res' = rejected
            /\ UNCHANGED <<notes, now, issued, nodeEnv, created, removed, deleted>>
       ELSE /\ \E atUpdated \in {now, now + 1} :
                 /\ atUpdated <= MaxClock
                 /\ LET r == createNote(notes, Field(body, "title"), Field(body, "content"),
                                        issued + 1, now, atUpdated)
                    IN IF r.threw
                         THEN /\ res' = errorHandler(r.err, nodeEnv)
                              /\ UNCHANGED <<notes, now, issued, created>>
                         ELSE /\ res' = Success(201, <<toJSON(r.value[1])>>, "Note created successfully")
                              /\ notes' = r.store
                              /\ now' = atUpdated
                              /\ issued' = issued + 1
                              /\ created' = created + 1
            /\ UNCHANGED <<nodeEnv, removed, deleted>>

\* router.get('/', ...)
List ==
  LET r == getAllNotes(notes)
  IN /\ res' = SuccessList(r.value, "Notes retrieved successfully")
     /\ notes' = r.store
     /\ UNCHANGED <<now, issued, nodeEnv, created, removed, deleted>>

GetAll == List /\ UNCHANGED <<requests, held>>

\* router.get('/:id', ...)
GetOne(id) ==
  LET r == getNoteById(notes, id)
  IN /\ res' = IF r.threw THEN errorHandler(r.err, nodeEnv)
               ELSE Success(200, r.value, "Note retrieved successfully")
     /\ notes' = r.store
     /\ UNCHANGED <<now, issued, nodeEnv, created, removed, deleted>>

\* router.put('/:id', ...)
Put(id, payload) ==
  LET body == ParseBody(payload)
      r == updateNote(notes, id, Field(body, "title"), Field(body, "content"), now)
  IN /\ res' = IF r.threw THEN errorHandler(r.err, nodeEnv)
               ELSE Success(200, r.value, "Note updated successfully")
     /\ notes' = r.store
     /\ UNCHANGED <<now, issued, nodeEnv, created, removed, deleted>>

\* router.delete('/:id', ...)
Delete(id) ==
  LET r == deleteNote(notes, id)
  IN /\ res' = IF r.threw THEN errorHandler(r.err, nodeEnv)
               ELSE Success(200, r.value, "Note deleted successfully")
     /\ notes' = r.store
     /\ removed' = IF r.threw THEN removed ELSE removed + 1
     /\ deleted' = IF r.threw THEN deleted ELSE deleted \cup {id}
     /\ UNCHANGED <<now, issued, nodeEnv, created>>

\* clearAllNotes emptying the collection of all notes but the first
clearAllButFirst ==
  /\ notes' = IF notes = <<>> THEN <<>> ELSE <<notes[1]>>
  /\ created' = 0
  /\ removed' = 0
  /\ UNCHANGED <<now, issued, nodeEnv, res, deleted, requests, held>>

\* clearAllNotes(), called by the test harness
clearAllNotes ==
  /\ notes' = <<>>
  /\ created' = 0
  /\ removed' = 0
  /\ UNCHANGED <<now, issued, nodeEnv, res, deleted, requests, held>>

\* a millisecond passes
Tick ==
  /\ now < MaxClock
  /\ now' = now + 1
  /\ UNCHANGED <<notes, issued, nodeEnv, res, created, removed, deleted, requests, held>>

\* a request of the parallel batch that was not sent yet
Idle == [state |-> "idle", payload |-> NoPayload, res |-> NoResponse]

\* a direct caller of notesService holds no note value
NoHeld == [kind |-> "none", note |-> <<>>]

\* ----------------------------------------------------------- specification
Init ==
  /\ notes = <<>>
  /\ now = 0
  /\ issued = 0
  /\ nodeEnv = "production"
  /\ res = NoResponse
  /\ created = 0
  /\ removed = 0
  /\ deleted = {}
  /\ requests = [k \in 1..MaxRequests |-> Idle]
  /\ held = NoHeld

\* a payload that validateNote lets through draws a uuid
Accepted(payload) == validateNote(ParseBody(payload), nodeEnv) = NoResponse

PostAny ==
  /\ \E payload \in Payloads : (Accepted(payload) => issued < MaxIds) /\ Post(payload)
  /\ UNCHANGED <<requests, held>>
GetOneAny == (\E id \in RequestIds : GetOne(id)) /\ UNCHANGED <<requests, held>>
PutAny ==
  /\ \E id \in RequestIds, payload \in Payloads : Put(id, payload)
  /\ UNCHANGED <<requests, held>>
DeleteAny == (\E id \in RequestIds : Delete(id)) /\ UNCHANGED <<requests, held>>

Next ==
  \/ PostAny
  \/ GetAll
  \/ GetOneAny
  \/ PutAny
  \/ DeleteAny
  \/ clearAllNotes
  \/ Tick

Spec == Init /\ [][Next]_vars

\* ------------------------------------------- specification of the validator
\* POST /notes over payloads at and around the limits of validateNote
WideTitles ==
  { Undefined, Null, Num(0), Num(123), Arr, Str(<<>>), Str(<<Run(" ", 3)>>),
    Str(<<Run(" ", 2), Run("a", 1), Run(" ", 2)>>),
    Str(<<Run(" ", 2), Run("a", MaxTitleLength), Run("\t", 1)>>),
    Str(<<Run("a", MaxTitleLength + 1)>>),
    Str(<<Run(" ", 1), Run("a", MaxTitleLength + 1), Run(" ", 1)>>) }

WideContents ==
  { Undefined, Null, Arr, Str(<<Run("\t", 1), Run("\n", 1), Run(" ", 2)>>),
    Str(<<Run(" ", 2), Run("c", 1), Run("\n", 1)>>),
    Str(<<Run(" ", 1), Run("c", MaxContentLength), Run(" ", 1)>>),
    Str(<<Run("c", MaxContentLength + 1)>>),
    Str(<<Run("\n", 1), Run("c", MaxContentLength + 1)>>) }

WidePayloads ==
  {NoPayload, Payload(MakeBody(Undefined, Undefined, TRUE))} \cup
  { Payload(MakeBody(t, c, FALSE)) : t \in WideTitles, c \in WideContents }

PostWide ==
  /\ \E payload \in WidePayloads :
       (Accepted(payload) => issued < MaxValidationIds) /\ Post(payload)
  /\ UNCHANGED <<requests, held>>

NextValidation ==
  \/ PostWide
  \/ GetAll
  \/ DeleteAny
  \/ Tick

SpecValidation == Init /\ [][NextValidation]_vars

\* ------------------------------------------ specification of parallel creates
\* the payloads of the creates sent in parallel, all of them valid
ParallelPayloads ==
  { Payload(MakeBody(Str(<<Run(" ", 2), Run("a", 1), Run(" ", 2)>>),
                     Str(<<Run(" ", 2), Run("c", 1), Run("\n", 1)>>), FALSE)),
    Payload(MakeBody(Str(<<Run("b", 1)>>), Str(<<Run("c", 1)>>), FALSE)) }

\* request k is sent; Express receives and parses its body while other
\* requests are sent or handled
Submit(k, payload) ==
  /\ requests[k].state = "idle"
  /\ requests' = [requests EXCEPT ![k] = [state |-> "pending", payload |-> payload,
                                           res |-> NoResponse]]
  /\ UNCHANGED <<notes, now, issued, nodeEnv, res, created, removed, deleted, held>>

\* the body of request k is complete: validateNote and the route handler run
\* to the response without yielding
Handle(k) ==
  /\ requests[k].state = "pending"
  /\ Post(requests[k].payload)
  /\ requests' = [requests EXCEPT ![k] = [state |-> "done", payload |-> @.payload,
                                           res |-> res']]
  /\ UNCHANGED held

SubmitAny == \E k \in 1..MaxRequests, payload \in ParallelPayloads : Submit(k, payload)
HandleAny == \E k \in 1..MaxRequests : Handle(k)

NextParallel ==
  \/ SubmitAny
  \/ HandleAny
  \/ GetAll
  \/ Tick

SpecParallel == Init /\ [][NextParallel]_vars

\* ------------------------------------------------- specification of updates
\* PUT /notes/:id over titles and contents that validateNote would refuse on
\* create, next to ones it would accept
UpdateTitles ==
  { Undefined, Num(123), Str(<<Run(" ", 3)>>),
    Str(<<Run(" ", 2), Run("b", 1), Run(" ", 2)>>),
    Str(<<Run(" ", 1), Run("a", MaxTitleLength + 1)>>) }

UpdateContents ==
  { Undefined, Null, Str(<<Run("\t", 1), Run("d", 1), Run("\n", 1)>>),
    Str(<<Run("c", MaxContentLength + 1), Run(" ", 1)>>) }

UpdatePayloads == { Payload(MakeBody(t, c, FALSE)) : t \in UpdateTitles, c \in UpdateContents }

\* the note the updates are applied to is created from a valid payload
PostStored ==
  /\ issued < MaxUpdateIds
  /\ Post(Payload(MakeBody(Str(<<Run(" ", 2), Run("a", 1), Run(" ", 2)>>),
                           Str(<<Run(" ", 2), Run("c", 1), Run("\n", 1)>>), FALSE)))
  /\ UNCHANGED <<requests, held>>

PutUpdate ==
  /\ \E id \in 0..MaxUpdateIds, payload \in UpdatePayloads : Put(id, payload)
  /\ UNCHANGED <<requests, held>>

NextUpdate ==
  \/ PostStored
  \/ PutUpdate
  \/ GetAll
  \/ Tick

SpecUpdate == Init /\ [][NextUpdate]_vars

\* ---------------------------------------------- specification of the errors
\* the values of NODE_ENV the program is run with
Environments == {"production", "development", "test"}

\* the error express.json() passes on for a body that is not JSON
ParseFailed == [name |-> "SyntaxError", message |-> "Unexpected token", type |-> "entity.parse.failed"]

\* an error thrown by a service method replaced in a test
ServiceUnavailable == Err("Error", "Service temporarily unavailable")

InitErrors ==
  /\ notes = <<>>
  /\ now = 0
  /\ issued = 0
  /\ nodeEnv \in Environments
  /\ res = NoResponse
  /\ created = 0
  /\ removed = 0
  /\ deleted = {}
  /\ requests = [k \in 1..MaxRequests |-> Idle]
  /\ held = NoHeld

\* a POST or PUT whose body is not JSON: the parser's error goes to errorHandler
MalformedJson ==
  /\ res' = errorHandler(ParseFailed, nodeEnv)
  /\ UNCHANGED <<notes, now, issued, nodeEnv, created, removed, deleted, requests, held>>

\* a POST while createNote is replaced by a function that throws
PostServiceFailure ==
  /\ \E payload \in Payloads :
       /\ Accepted(payload)
       /\ res' = errorHandler(ServiceUnavailable, nodeEnv)
  /\ UNCHANGED <<notes, now, issued, nodeEnv, created, removed, deleted, requests, held>>

NextErrors ==
  \/ PostAny
  \/ GetAll
  \/ GetOneAny
  \/ PutAny
  \/ DeleteAny
  \/ MalformedJson
  \/ PostServiceFailure

SpecErrors == InitErrors /\ [][NextErrors]_vars

\* ------------------------------------- specification of concurrent requests
\* the requests sent concurrently: a create, and an update, a delete and a get
\* of the first note created, and a list
ConcurrentRequests ==
  { [op |-> "post", id |-> 0,
     payload |-> Payload(MakeBody(Str(<<Run(" ", 2), Run("a", 1), Run(" ", 2)>>),
                                  Str(<<Run(" ", 2), Run("c", 1), Run("\n", 1)>>), FALSE))],
    [op |-> "put", id |-> 1,
     payload |-> Payload(MakeBody(Str(<<Run(" ", 1), Run("b", 1), Run(" ", 1)>>),
                                  Undefined, FALSE))],
    [op |-> "delete", id |-> 1, payload |-> NoPayload],
    [op |-> "get", id |-> 1, payload |-> NoPayload],
    [op |-> "list", id |-> 0, payload |-> NoPayload] }

\* request k is sent (the k-th of the batch); it is handled at any later time
SubmitRequest(k, q) ==
  /\ requests[k].state = "idle"
  /\ IF k = 1 THEN TRUE ELSE requests[k - 1].state # "idle"
  /\ requests' = [requests EXCEPT ![k] = [state |-> "pending", payload |-> q.payload,
                                           res |-> NoResponse, op |-> q.op, id |-> q.id]]
  /\ UNCHANGED <<notes, now, issued, nodeEnv, res, created, removed, deleted, held>>

\* the route handler of request k runs, from its first statement to the
\* response, without yielding
HandleRequest(k) ==
  /\ requests[k].state = "pending"
  /\ \/ requests[k].op = "post" /\ Post(requests[k].payload)
     \/ requests[k].op = "put" /\ Put(requests[k].id, requests[k].payload)
     \/ requests[k].op = "delete" /\ Delete(requests[k].id)
     \/ requests[k].op = "get" /\ GetOne(requests[k].id)
     \/ requests[k].op = "list" /\ List
  /\ requests' = [requests EXCEPT ![k].state = "done", ![k].res = res']
  /\ UNCHANGED held

SubmitRequestAny == \E k \in 1..MaxRequests, q \in ConcurrentRequests : SubmitRequest(k, q)
HandleRequestAny == \E k \in 1..MaxRequests : HandleRequest(k)

NextConcurrent ==
  \/ SubmitRequestAny
  \/ HandleRequestAny
  \/ Tick

SpecConcurrent == Init /\ [][NextConcurrent]_vars

\* ------------------------------------- specification of direct service calls
\* notesService called directly, as the tests' createTestNote does; held is the
\* value the caller got back.  A value of kind "live" is the Note object that
\* is in this.notes, a value of kind "copy" an object built by toJSON().
Live(note) == [kind |-> "live", note |-> <<note>>]
Copy(note) == [kind |-> "copy", note |-> <<note>>]

\* what the caller sees in the value it holds once the collection is store: a
\* live Note still in the collection shows the fields the collection's Note has
Seen(h, store) ==
  IF h.kind = "live" /\ FindIndex(store, h.note[1].id) # 0
    THEN Live(store[FindIndex(store, h.note[1].id)])
    ELSE h

ServiceTitles == { Undefined, Str(<<Run(" ", 1), Run("b", 1), Run(" ", 1)>>) }
ServiceContents == { Undefined, Str(<<Run("d", 1)>>) }

\* notesService.createNote(title, content) returns the Note it pushed
CallCreateNote ==
  /\ issued < MaxServiceIds
  /\ \E atUpdated \in {now, now + 1} :
       /\ atUpdated <= MaxClock
       /\ LET r == createNote(notes, Str(<<Run(" ", 2), Run("a", 1), Run(" ", 2)>>),
                              Str(<<Run(" ", 2), Run("c", 1), Run("\n", 1)>>),
                              issued + 1, now, atUpdated)
          IN /\ ~r.threw
             /\ notes' = r.store
             /\ held' = Live(r.value[1])
             /\ now' = atUpdated
  /\ issued' = issued + 1
  /\ created' = created + 1
  /\ UNCHANGED <<nodeEnv, res, removed, deleted, requests>>

\* notesService.getAllNotes() returns toJSON() of every note; the caller keeps one
CallGetAllNotes ==
  /\ \E i \in 1..Len(notes) : held' = Copy(getAllNotes(notes).value[i])
  /\ UNCHANGED <<notes, now, issued, nodeEnv, res, created, removed, deleted, requests>>

\* notesService.getNoteById(id) returns note.toJSON()
CallGetNoteById(id) ==
  LET r == getNoteById(notes, id)
  IN /\ ~r.threw
     /\ held' = Copy(r.value[1])
     /\ UNCHANGED <<notes, now, issued, nodeEnv, res, created, removed, deleted, requests>>

\* notesService.updateNote(id, title, content) mutates the Note in place and
\* returns note.toJSON(); the caller keeps the value it held before, or takes
\* the returned one
CallUpdateNote(id, title, content, keep) ==
  LET r == updateNote(notes, id, title, content, now)
  IN /\ ~r.threw
     /\ notes' = r.store
     /\ held' = IF keep THEN Seen(held, r.store) ELSE Copy(r.value[1])
     /\ UNCHANGED <<now, issued, nodeEnv, res, created, removed, deleted, requests>>

\* notesService.deleteNote(id) returns deletedNote.toJSON()
CallDeleteNote(id) ==
  LET r == deleteNote(notes, id)
  IN /\ ~r.threw
     /\ notes' = r.store
     /\ held' = Copy(r.value[1])
     /\ removed' = removed + 1
     /\ deleted' = deleted \cup {id}
     /\ UNCHANGED <<now, issued, nodeEnv, res, created, requests>>

CallGetNoteByIdAny == \E id \in 0..MaxServiceIds : CallGetNoteById(id)
CallUpdateNoteAny ==
  \E id \in 0..MaxServiceIds, title \in ServiceTitles, content \in ServiceContents,
     keep \in BOOLEAN : CallUpdateNote(id, title, content, keep)
CallDeleteNoteAny == \E id \in 0..MaxServiceIds : CallDeleteNote(id)

NextService ==
  \/ CallCreateNote
  \/ CallGetAllNotes
  \/ CallGetNoteByIdAny
  \/ CallUpdateNoteAny
  \/ CallDeleteNoteAny
  \/ Tick

SpecService == Init /\ [][NextService]_vars

\* ------------------------------------------------------------------ claims
\* the ids of the notes in the collection
Ids(store) == {store[i].id : i \in 1..Len(store)}

\* the stored note with the given id, which is in the collection
NoteOf(store, id) == store[FindIndex(store, id)]

\* the payloads that pass every check of validateNote
ValidPayloads == {payload \in Payloads : FailedCheck(ParseBody(payload)) = "none"}

\* this step is a PUT naming id that succeeded
PutSucceeded(id) ==
  /\ res'.message = "Note updated successfully"
  /\ res'.data[1].id = id
  /\ \E payload \in Payloads :
       /\ Put(id, payload)
       /\ ~updateNote(notes, id, Field(ParseBody(payload), "title"),
                      Field(ParseBody(payload), "content"), now).threw

\* this step is a DELETE naming id that succeeded
DeleteSucceeded(id) ==
  /\ res'.message = "Note deleted successfully"
  /\ Delete(id)
  /\ ~deleteNote(notes, id).threw

\* after this step get(id) of the note just created returns the trimmed title
\* and content of the payload and the id the create returned
ReadsBackCreated(payload) ==
  /\ res'.status = 201
  /\ LET id == res'.data[1].id
         got == getNoteById(notes', id)
     IN /\ ~got.threw
        /\ got.value[1].id = id
        /\ got.value[1].title = Trim(payload.obj["title"].s)
        /\ got.value[1].content = Trim(payload.obj["content"].s)

\* get(id) returns after this step a note with the id, title and content it
\* returned before the step
ReadsTheSame(id) ==
  LET before == getNoteById(notes, id)
      after == getNoteById(notes', id)
  IN /\ ~after.threw
     /\ after.value[1].id = before.value[1].id
     /\ after.value[1].title = before.value[1].title
     /\ after.value[1].content = before.value[1].content

\* C1 as stated: for every accepted (title, content), create then get(id) succeeds
\* and returns the trimmed title and content and the id create returned, provided
\* no delete of that id and no clear happens in between.  Step by step: right
\* after the create get(id) returns them, and every step that is neither a
\* delete of id nor a clear leaves what get(id) returns as it was.
C1_CreateThenGet_AsStated ==
  [][ /\ \A payload \in ValidPayloads : Post(payload) => ReadsBackCreated(payload)
      /\ \A i \in 1..Len(notes) :
           (~DeleteSucceeded(notes[i].id) /\ ~clearAllNotes) => ReadsTheSame(notes[i].id) ]_vars

\* C1 amended: for every accepted (title, content), create then get(id) succeeds
\* and returns the trimmed title and content and the id create returned, provided
\* no update of that id, no delete of that id and no clear happens in between.
C1_CreateThenGet ==
  [][ /\ \A payload \in ValidPayloads : Post(payload) => ReadsBackCreated(payload)
      /\ \A i \in 1..Len(notes) :
           (/\ ~PutSucceeded(notes[i].id)
            /\ ~DeleteSucceeded(notes[i].id)
            /\ ~clearAllNotes) => ReadsTheSame(notes[i].id) ]_vars

\* a GET returned the first note, created from "  a  " and "  c\n", trimmed,
\* after a second note was created
C1_Witness ==
  /\ res.message = "Note retrieved successfully"
  /\ res.data[1].title = <<Run("a", 1)>>
  /\ res.data[1].content = <<Run("c", 1)>>
  /\ Len(notes) = 2
  /\ res.data[1].id = notes[1].id

\* C2: every note returned by a successful create has createdAt equal to
\* updatedAt, and the stored note keeps them equal until its first successful update.
C2_CreatedAtEqualsUpdatedAt ==
  [][ /\ \A payload \in ValidPayloads :
           Post(payload) => /\ res'.status = 201
                            /\ res'.data[1].createdAt = res'.data[1].updatedAt
                            /\ notes'[Len(notes')].createdAt = notes'[Len(notes')].updatedAt
      /\ \A i \in 1..Len(notes) :
           (/\ notes[i].createdAt = notes[i].updatedAt
            /\ ~PutSucceeded(notes[i].id)
            /\ notes[i].id \in Ids(notes'))
             => NoteOf(notes', notes[i].id).createdAt = NoteOf(notes', notes[i].id).updatedAt ]_vars

\* C3 as stated: after every successful update the note's createdAt is what it
\* was and its updatedAt is strictly later than it was.
C3_UpdatedAtStrictlyLater ==
  [][ \A i \in 1..Len(notes) :
        PutSucceeded(notes[i].id)
          => /\ NoteOf(notes', notes[i].id).createdAt = notes[i].createdAt
             /\ NoteOf(notes', notes[i].id).updatedAt > notes[i].updatedAt ]_vars

\* C3 amended: after every successful update the note's createdAt is what it was
\* and its updatedAt is the clock's reading at the update, which is never earlier
\* than the updatedAt before and is strictly later only if the clock has advanced
\* since that one was stamped; the response carries the same two stamps.
C3_UpdatedAtIsNow ==
  [][ \A i \in 1..Len(notes) :
        PutSucceeded(notes[i].id)
          => LET after == NoteOf(notes', notes[i].id)
             IN /\ after.createdAt = notes[i].createdAt
                /\ after.updatedAt = now
                /\ after.updatedAt >= notes[i].updatedAt
                /\ (after.updatedAt > notes[i].updatedAt) = (now > notes[i].updatedAt)
                /\ res'.data[1].createdAt = after.createdAt
                /\ res'.data[1].updatedAt = after.updatedAt ]_vars

\* an update was answered after the clock had advanced past the note's creation,
\* next to a note that still carries the timestamps of its creation
C3_Witness ==
  /\ res.message = "Note updated successfully"
  /\ Len(notes) = 2
  /\ res.data[1] = toJSON(notes[1])
  /\ notes[1].updatedAt = now
  /\ notes[1].updatedAt > notes[1].createdAt
  /\ notes[2].updatedAt = notes[2].createdAt

\* C4: after a successful delete(id), get(id), update(id, ...) and delete(id) fail
\* with NotFound in every later state.
C4_DeletedStaysNotFound ==
  \A id \in deleted :
    /\ getNoteById(notes, id).threw
    /\ getNoteById(notes, id).err.message = MsgNotFound
    /\ deleteNote(notes, id).threw
    /\ deleteNote(notes, id).err.message = MsgNotFound
    /\ errorHandler(deleteNote(notes, id).err, nodeEnv).status = 404
    /\ \A payload \in Payloads :
         LET r == updateNote(notes, id, Field(ParseBody(payload), "title"),
                             Field(ParseBody(payload), "content"), now)
         IN r.threw /\ r.err.message = MsgNotFound

\* a request naming a deleted id was answered 404 while another note, created
\* after the delete, is live
C4_Witness ==
  /\ deleted = {1}
  /\ Ids(notes) = {2}
  /\ res.status = 404

\* C5: in every state the length of list() is count(), is the count field of
\* the list response, and is the number of successful creates minus the number
\* of successful deletes since the collection was last emptied.
C5_ListLengthIsCount ==
  LET list == getAllNotes(notes).value
  IN /\ Len(list) = getNotesCount(notes)
     /\ SuccessList(list, "Notes retrieved successfully").count = getNotesCount(notes)
     /\ getNotesCount(notes) = created - removed
     /\ (res.message = "Notes retrieved successfully" => res.count = Len(res.data))

\* a list answered with count 1 after two creates and one delete
C5_Witness ==
  /\ res.message = "Notes retrieved successfully"
  /\ res.count = 1
  /\ created = 2
  /\ removed = 1
  /\ Len(notes) = 1

\* the 404 response of errorHandler
IsNotFoundResponse(r) ==
  /\ r.status = 404
  /\ r.success = FALSE
  /\ r.error = "Not Found"
  /\ r.message = "Note not found"
  /\ {"success", "error", "message"} \subseteq r.keys
  /\ "data" \notin r.keys

\* a payload a PUT applies: title or content a non-blank string, the other one
\* such a string too or absent
ValidUpdatePayloads ==
  { payload \in Payloads :
      LET title == Field(ParseBody(payload), "title")
          content == Field(ParseBody(payload), "content")
          good(v) == IsString(v) /\ StrLength(Trim(v.s)) > 0
      IN /\ good(title) \/ good(content)
         /\ good(title) \/ title = Undefined
         /\ good(content) \/ content = Undefined }

\* C6: get, update with a valid payload and delete naming an id that is not in
\* the collection, whatever its format, are answered 404 with
\* {success: false, error: 'Not Found', message: 'Note not found'}.
C6_UnknownIdIsNotFound ==
  [][ \A id \in RequestIds \ Ids(notes) :
        /\ GetOne(id) => IsNotFoundResponse(res')
        /\ Delete(id) => IsNotFoundResponse(res')
        /\ \A payload \in ValidUpdatePayloads : Put(id, payload) => IsNotFoundResponse(res') ]_vars

\* a request was answered 404 while the collection holds a note
C6_Witness ==
  /\ IsNotFoundResponse(res)
  /\ Len(notes) = 1
  /\ deleted = {}

\* the title and the content of a payload, Undefined when it has none
TitleOf(payload) ==
  IF payload.present /\ "title" \in DOMAIN payload.obj THEN payload.obj["title"] ELSE Undefined
ContentOf(payload) ==
  IF payload.present /\ "content" \in DOMAIN payload.obj THEN payload.obj["content"] ELSE Undefined

\* the five checks of the claim, each on its own
HasNoKeys(payload) == ~payload.present \/ DOMAIN payload.obj = {}
MissingOrBlank(v) == v.k # "string" \/ StrLength(Trim(v.s)) = 0
TooLong(v, limit) == v.k = "string" /\ StrLength(Trim(v.s)) > limit

\* the message the claim expects: that of the first check, in the order of the
\* claim, that the payload fails
ExpectedMessage(payload) ==
  IF HasNoKeys(payload) THEN MsgBodyRequired
  ELSE IF MissingOrBlank(TitleOf(payload)) THEN MsgInvalidTitle
  ELSE IF MissingOrBlank(ContentOf(payload)) THEN MsgInvalidContent
  ELSE IF TooLong(TitleOf(payload), 200) THEN MsgTitleTooLong
  ELSE IF TooLong(ContentOf(payload), 5000) THEN MsgContentTooLong
  ELSE ""

\* both fields are strings of trimmed length 1..200 and 1..5000
WithinLimits(payload) ==
  /\ TitleOf(payload).k = "string"
  /\ StrLength(Trim(TitleOf(payload).s)) \in 1..200
  /\ ContentOf(payload).k = "string"
  /\ StrLength(Trim(ContentOf(payload).s)) \in 1..5000

\* how many of the five checks the payload fails
FailedChecks(payload) ==
  { n \in 1..5 :
      \/ n = 1 /\ HasNoKeys(payload)
      \/ n = 2 /\ MissingOrBlank(TitleOf(payload))
      \/ n = 3 /\ MissingOrBlank(ContentOf(payload))
      \/ n = 4 /\ TooLong(TitleOf(payload), 200)
      \/ n = 5 /\ TooLong(ContentOf(payload), 5000) }

\* C7: create validation answers with the error of the first failing check in
\* the order empty body, title, content, title length, content length, and
\* accepts a payload exactly when title and content are strings of trimmed
\* length 1..200 and 1..5000.
C7_FirstFailingCheck ==
  \A payload \in WidePayloads :
    LET r == validateNote(ParseBody(payload), nodeEnv)
    IN /\ (r = NoResponse) = WithinLimits(payload)
       /\ r.message = ExpectedMessage(payload)
       /\ r # NoResponse => r.status = 400 /\ ~r.success

\* the response is the content error of a payload whose title is too long as
\* well, and the collection holds a note created from an accepted payload
C7_Witness ==
  /\ res.message = MsgInvalidContent
  /\ Len(notes) = 1
  /\ \E payload \in WidePayloads :
       /\ FailedChecks(payload) = {3, 4}
       /\ res = validateNote(ParseBody(payload), nodeEnv)

\* the payloads with two non-blank strings of which the title has 200 or 201
\* characters after trimming or the content 5000 or 5001
BoundaryPayloads ==
  { payload \in WidePayloads :
      /\ TitleOf(payload).k = "string" /\ ContentOf(payload).k = "string"
      /\ StrLength(Trim(TitleOf(payload).s)) >= 1
      /\ StrLength(Trim(ContentOf(payload).s)) >= 1
      /\ \/ StrLength(Trim(TitleOf(payload).s)) \in {200, 201}
         \/ StrLength(Trim(ContentOf(payload).s)) \in {5000, 5001} }

\* C8: on create a title of 200 characters after trimming is accepted and one of
\* 201 is rejected with TitleTooLong, a content of 5000 is accepted and one of
\* 5001 rejected with ContentTooLong; whitespace around them changes nothing.
C8_LengthBoundaries ==
  [][ \A payload \in BoundaryPayloads :
        LET titleLength == StrLength(Trim(TitleOf(payload).s))
            contentLength == StrLength(Trim(ContentOf(payload).s))
        IN Post(payload)
             => IF titleLength >= 201
                  THEN res'.status = 400 /\ res'.message = MsgTitleTooLong /\ notes' = notes
                ELSE IF contentLength >= 5001
                  THEN res'.status = 400 /\ res'.message = MsgContentTooLong /\ notes' = notes
                ELSE /\ res'.status = 201
                     /\ StrLength(res'.data[1].title) = titleLength
                     /\ StrLength(res'.data[1].content) = contentLength ]_vars

\* a note was created from a title of 200 characters and a content of 5000, each
\* sent with whitespace around it
C8_Witness ==
  /\ res.status = 201
  /\ res.data[1].title = <<Run("a", 200)>>
  /\ res.data[1].content = <<Run("c", 5000)>>

\* C9: a create whose payload is absent or has no keys is answered 400 with
\* error 'Bad Request' and message 'Request body is required', and the
\* collection is unchanged.
C9_EmptyBody ==
  [][ \A payload \in {p \in Payloads : HasNoKeys(p)} :
        Post(payload)
          => /\ res'.status = 400
             /\ res'.success = FALSE
             /\ res'.error = "Bad Request"
             /\ res'.message = "Request body is required"
             /\ notes' = notes ]_vars

\* a create was answered 'Request body is required' while the collection holds a note
C9_Witness ==
  /\ res.status = 400
  /\ res.message = "Request body is required"
  /\ Len(notes) = 1

\* C10: an update of an existing note whose payload has neither title nor
\* content (absent or null), whatever other keys it has, is answered 400 with
\* error 'Bad Request' and a message containing 'At least one field', and the
\* note is unchanged, updatedAt included.
C10_NoFieldsProvided ==
  [][ \A i \in 1..Len(notes) :
        \A payload \in { p \in Payloads : /\ p.present
                                          /\ TitleOf(p) \in {Undefined, Null}
                                          /\ ContentOf(p) \in {Undefined, Null} } :
          Put(notes[i].id, payload)
            => /\ res'.status = 400
               /\ res'.success = FALSE
               /\ res'.error = "Bad Request"
               /\ Includes(res'.message, "At least one field")
               /\ notes' = notes ]_vars

\* an update was answered 'At least one field ...' after the clock had advanced
\* past the note's updatedAt
C10_Witness ==
  /\ res.status = 400
  /\ res.message = MsgNoFields
  /\ Len(notes) = 1
  /\ notes[1].updatedAt < now

\* the requests of the parallel batch that were answered
Done == {k \in 1..MaxRequests : requests[k].state = "done"}

\* C11: when N valid creates are submitted in parallel against an empty
\* collection, in every interleaving each one handled so far got 201, the
\* collection holds exactly one note per handled request, with pairwise
\* distinct ids, each the note returned to its request, and list() returns them
\* all; so when all N are handled the collection and list() hold exactly N.
C11_ParallelCreates ==
  /\ \A k \in Done :
       /\ requests[k].res.status = 201
       /\ requests[k].res.success
       /\ \E i \in 1..Len(notes) :
            /\ requests[k].res.data[1].id = notes[i].id
            /\ notes[i].title = Trim(TitleOf(requests[k].payload).s)
  /\ Len(notes) = Cardinality(Done)
  /\ Cardinality(Ids(notes)) = Len(notes)
  /\ Cardinality({requests[k].res.data[1].id : k \in Done}) = Cardinality(Done)
  /\ Len(getAllNotes(notes).value) = Cardinality(Done)
  /\ {getAllNotes(notes).value[i].id : i \in 1..Len(notes)} = Ids(notes)

\* all the requests of the batch were answered, the second one first, and
\* list() was then answered with all the notes
C11_Witness ==
  /\ Done = 1..MaxRequests
  /\ requests[2].res.data[1].id = 1
  /\ requests[1].res.data[1].id = 2
  /\ res.message = "Notes retrieved successfully"
  /\ res.count = MaxRequests

\* C12: in every state reachable through POST, PUT and DELETE every live
\* note's title and content are non-empty and not whitespace-only.
C12_NeverBlank ==
  \A i \in 1..Len(notes) :
    /\ StrLength(Trim(notes[i].title)) > 0
    /\ StrLength(Trim(notes[i].content)) > 0

\* C13: in every state reachable through the request entry points every live
\* note's title has at most 200 characters and its content at most 5000.
C13_WithinLimits ==
  \A i \in 1..Len(notes) :
    /\ StrLength(notes[i].title) <= 200
    /\ StrLength(notes[i].content) <= 5000

\* a field of an update payload is provided when it is neither absent nor null
Provided(v) == v.k \notin {"undefined", "null"}

\* C18: a successful update that provides only title sets the title to the
\* trimmed given value and leaves the content unchanged, one that provides only
\* content sets the content and leaves the title unchanged, and one that
\* provides both sets both to their trimmed values.
C18_UpdateAppliesProvidedFields ==
  [][ \A i \in 1..Len(notes) :
        \A payload \in UpdatePayloads :
          (/\ res'.message = "Note updated successfully"
           /\ res'.data[1].id = notes[i].id
           /\ Put(notes[i].id, payload))
            => LET title == TitleOf(payload)
                   content == ContentOf(payload)
                   after == notes'[i]
               IN /\ after.title = IF Provided(title) THEN Trim(title.s) ELSE notes[i].title
                  /\ after.content = IF Provided(content) THEN Trim(content.s)
                                     ELSE notes[i].content
                  /\ res'.data[1].title = after.title
                  /\ res'.data[1].content = after.content ]_vars

\* an update that provided only a title was answered: the note has the trimmed
\* title and the content of its creation
C18_Witness ==
  /\ res.message = "Note updated successfully"
  /\ Len(notes) = 1
  /\ notes[1].title = <<Run("b", 1)>>
  /\ notes[1].content = <<Run("c", 1)>>
  /\ res.data[1] = toJSON(notes[1])

\* a title or content that create validation would refuse: not a string, blank
\* after trimming, or longer than the limit after trimming
InvalidField(v, limit) ==
  /\ Provided(v)
  /\ \/ v.k # "string"
     \/ StrLength(Trim(v.s)) = 0
     \/ StrLength(Trim(v.s)) > limit

\* C19: an update in which title or content is present but is not a string, is
\* blank after trimming or exceeds the create length limit is rejected with
\* status 400, and the note is unchanged.
C19_InvalidUpdateRejected ==
  [][ \A i \in 1..Len(notes) :
        \A payload \in UpdatePayloads :
          (/\ \/ InvalidField(TitleOf(payload), 200)
              \/ InvalidField(ContentOf(payload), 5000)
           /\ Put(notes[i].id, payload))
            => res'.status = 400 /\ notes' = notes ]_vars

\* C14: no two notes of the collection have the same id, and the id a create
\* assigns was never assigned by an earlier create, whether that note is live,
\* was deleted or was cleared (the ids assigned so far are 1..issued).
C14_IdsNeverReused ==
  [][ /\ Cardinality(Ids(notes')) = Len(notes')
      /\ Ids(notes') \cap deleted' = {}
      /\ created' = created + 1
           => /\ res'.data[1].id = notes'[Len(notes')].id
              /\ res'.data[1].id \notin Ids(notes) \cup deleted \cup 1..issued
              /\ Ids(notes) \cup deleted \subseteq 1..issued ]_vars

\* a create was answered after an earlier note had been deleted
C14_Witness ==
  /\ res.status = 201
  /\ deleted = {1}
  /\ Len(notes) = 1
  /\ notes[1].id = 2

\* C15: in every reachable state every live note has createdAt <= updatedAt.
C15_CreatedBeforeUpdated ==
  \A i \in 1..Len(notes) : notes[i].createdAt <= notes[i].updatedAt

\* an update was answered for a note after a later note was created across a
\* millisecond boundary
C15_Witness ==
  /\ res.message = "Note updated successfully"
  /\ Len(notes) = 2
  /\ notes[1].createdAt < notes[1].updatedAt
  /\ notes[2].createdAt < notes[2].updatedAt
  /\ res.data[1].id = 1

\* the ids of a sequence of notes, in its order
IdSeq(store) == [i \in 1..Len(store) |-> store[i].id]

C20_FailureChangesNothing ==
  [][ \/ notes' = notes
      \/ res'.success
      \/ ~(PostAny \/ GetOneAny \/ PutAny \/ DeleteAny) ]_vars

\* an update was answered with an unexpected error after the clock had
\* advanced past the note's updatedAt
C20_Witness ==
  /\ res.status = 500
  /\ Len(notes) = 1
  /\ notes[1].updatedAt < now

\* C17: a note value returned to a caller by create, list, get, update or
\* delete is a snapshot: a later update of that note in the store does not
\* change the value the caller holds (as it would were the value the store's
\* live object).
C17_ReturnedValuesAreSnapshots ==
  [][ \A id \in 1..MaxServiceIds, title \in ServiceTitles, content \in ServiceContents :
        (held.kind # "none" /\ CallUpdateNote(id, title, content, TRUE))
          => held'.note = held.note ]_vars

\* C21: a successful delete(id) removes exactly the note with that id,
\* decreases count() by one, and returns the five fields the stored note had
\* immediately before the delete.
C21_DeleteReturnsRemovedNote ==
  [][ \A i \in 1..Len(notes) :
        DeleteSucceeded(notes[i].id)
          => /\ res'.status = 200
             /\ res'.data = <<toJSON(notes[i])>>
             /\ getNotesCount(notes') = getNotesCount(notes) - 1
             /\ Ids(notes') = Ids(notes) \ {notes[i].id}
             /\ \A j \in 1..Len(notes) : j # i => \E k \in 1..Len(notes') : notes'[k] = notes[j]
    ]_vars

\* a delete was answered with the second of two notes, which had been emptied
\* of its title by an earlier update after the clock advanced
C21_Witness ==
  /\ res.message = "Note deleted successfully"
  /\ res.data[1].id = 2
  /\ res.data[1].title = <<>>
  /\ res.data[1].updatedAt > res.data[1].createdAt
  /\ Ids(notes) = {1}

\* C22: a note's id and createdAt never change from its creation until its
\* deletion: whatever the step, a note keeps its position's id while the
\* collection keeps its length, and a note that is still in the collection
\* after the step has the createdAt it had before.
C22_IdAndCreatedAtImmutable ==
  [][ /\ Len(notes') = Len(notes) => \A i \in 1..Len(notes) : notes'[i].id = notes[i].id
      /\ \A i \in 1..Len(notes) :
           \A j \in 1..Len(notes') :
             notes'[j].id = notes[i].id => notes'[j].createdAt = notes[i].createdAt ]_vars

\* the first of two notes was updated after the clock advanced, and the other
\* note was deleted after that
C22_Witness ==
  /\ res.message = "Note deleted successfully"
  /\ res.data[1].id = 2
  /\ Len(notes) = 1
  /\ notes[1].id = 1
  /\ notes[1].createdAt < notes[1].updatedAt
  /\ notes[1].title = <<>>

\* id, title and content of the notes of a sequence, in its order
Strip(store) ==
  [i \in 1..Len(store) |-> [id |-> store[i].id, title |-> store[i].title,
                            content |-> store[i].content]]

\* request k with the fields q run on its own on the outcome st of the requests
\* before it: the collection after it, the ids issued, and for every request
\* run so far its status and the notes it was answered with
SerialStep(st, k, q) ==
  LET title == Field(ParseBody(q.payload), "title")
      content == Field(ParseBody(q.payload), "content")
      r == CASE q.op = "post" ->
                  IF validateNote(ParseBody(q.payload), nodeEnv) # NoResponse
                    THEN Threw(Err("Error", MsgRequired), st.store)
                    ELSE createNote(st.store, title, content, st.issued + 1, 0, 0)
             [] q.op = "put" -> updateNote(st.store, q.id, title, content, 0)
             [] q.op = "delete" -> deleteNote(st.store, q.id)
             [] q.op = "get" -> getNoteById(st.store, q.id)
             [] OTHER -> getAllNotes(st.store)
      status == IF r.threw THEN errorHandler(r.err, nodeEnv).status
                ELSE IF q.op = "post" THEN 201 ELSE 200
  IN [store |-> r.store,
      issued |-> IF q.op = "post" /\ ~r.threw THEN st.issued + 1 ELSE st.issued,
      status |-> [st.status EXCEPT ![k] = status],
      seen |-> [st.seen EXCEPT ![k] = Strip(r.value)]]

RECURSIVE SerialRun(_, _, _)
SerialRun(order, reqs, st) ==
  IF order = <<>> THEN st
  ELSE SerialRun(Tail(order), reqs, SerialStep(st, Head(order), reqs[Head(order)]))

\* the orders in which the requests of the set D can be run one after the other
Orders(D) ==
  { o \in [1..Cardinality(D) -> D] : \A i, j \in 1..Cardinality(D) : i # j => o[i] # o[j] }

\* the collection and the responses are those of the handled requests of reqs
\* run one at a time in some order, each on the empty collection's successor
Serializable(reqs, store) ==
  LET D == {k \in 1..MaxRequests : reqs[k].state = "done"}
      start == [store |-> <<>>, issued |-> 0,
                status |-> [k \in 1..MaxRequests |-> 0],
                seen |-> [k \in 1..MaxRequests |-> <<>>]]
  IN \E o \in Orders(D) :
       LET st == SerialRun(o, reqs, start)
       IN /\ Strip(st.store) = Strip(store)
          /\ \A k \in D : /\ st.status[k] = reqs[k].res.status
                          /\ st.seen[k] = Strip(reqs[k].res.data)

UnexpectedErrors ==
  { Err("TypeError", MsgNotAFunction), Err("TypeError", MsgCannotDestructure),
    ServiceUnavailable }

\* C24: an unexpected failure raised while handling a request is reported as
\* status 500 with error and message 'Internal Server Error': the error's own
\* message is not sent, and the stack is sent only when NODE_ENV is 'development'.
C24_UnexpectedErrorIs500 ==
  /\ \A err \in UnexpectedErrors :
       LET r == errorHandler(err, nodeEnv)
       IN /\ r.status = 500
          /\ r.success = FALSE
          /\ r.error = "Internal Server Error"
          /\ r.message = "Internal Server Error"
          /\ r.message # err.message
          /\ ("stack" \in r.keys) = (nodeEnv = "development")
  /\ res.status = 500
       => /\ res.error = "Internal Server Error"
          /\ res.message = "Internal Server Error"
          /\ res.keys = {"success", "error", "message"}
                          \cup (IF nodeEnv = "development" THEN {"stack"} ELSE {})

\* an update with a numeric title was answered 500 in development, with the stack
C24_Witness ==
  /\ res.status = 500
  /\ nodeEnv = "development"
  /\ "stack" \in res.keys
  /\ Len(notes) = 1

\* C30: every error response has the keys success (false), error and message
\* (and stack in development), without data, and a category fixed by the
\* status: 404 'Not Found', 500 'Internal Server Error', 400 'Bad Request'
\* (empty body, no fields to update, malformed JSON) or 'Validation Error' (a
\* field check of create failed); every success response has success true.
C30_ErrorResponseShape ==
  res # NoResponse =>
    /\ res.status \in {200, 201, 400, 404, 500}
    /\ res.success = (res.status \in {200, 201})
    /\ res.success => "data" \in res.keys
    /\ ~res.success =>
         /\ {"success", "error", "message"} \subseteq res.keys
         /\ res.keys \subseteq {"success", "error", "message", "stack"}
         /\ res.data = <<>>
         /\ res.status = 404 => res.error = "Not Found"
         /\ res.status = 500 => res.error = "Internal Server Error"
         /\ res.status = 400 =>
              \/ /\ res.error = "Bad Request"
                 /\ res.message \in {MsgBodyRequired, MsgNoFields, "Invalid JSON in request body"}
              \/ /\ res.error = "Validation Error"
                 /\ res.message \in {MsgInvalidTitle, MsgInvalidContent,
                                     MsgTitleTooLong, MsgContentTooLong}

\* an update without fields was answered 400 'Bad Request' in development
C30_Witness ==
  /\ res.status = 400
  /\ res.error = "Bad Request"
  /\ res.message = MsgNoFields
  /\ nodeEnv = "development"
  /\ Len(notes) = 2

\* the payloads of an update that carry neither a title nor a content
NoFieldPayloads ==
  { p \in Payloads : /\ p.present
                     /\ TitleOf(p) \in {Undefined, Null}
                     /\ ContentOf(p) \in {Undefined, Null} }

\* C25: the Validator decides before the NoteStore is consulted: an update
\* carrying neither title nor content is rejected with NoFieldsProvided (400)
\* whether or not the named id exists, and the store's update is only reached
\* with a title and a content that passed the Validator's checks.
C25_ValidatorBeforeStore ==
  [][ \A id \in RequestIds :
        \A payload \in Payloads :
          Put(id, payload)
            => /\ payload \in NoFieldPayloads
                    => res'.status = 400 /\ res'.message = MsgNoFields
               /\ notes' # notes
                    => /\ ~InvalidField(TitleOf(payload), 200)
                       /\ ~InvalidField(ContentOf(payload), 5000) ]_vars

\* the note is in the collection after the step with all five fields unchanged
Untouched(note) == \E j \in 1..Len(notes') : notes'[j] = note

\* C26 as stated: a note that a step changes was named by a successful update,
\* and a note that a step removes was named by a successful delete.
C26_OnlyOwnNote_AsStated ==
  [][ \A i \in 1..Len(notes) :
        \/ Untouched(notes[i])
        \/ notes[i].id \in Ids(notes') /\ PutSucceeded(notes[i].id)
        \/ notes[i].id \notin Ids(notes') /\ DeleteSucceeded(notes[i].id) ]_vars

\* C26: each mutation affects only its own note: a create leaves every earlier
\* note unchanged, a successful update(id) or delete(id) leaves every note with
\* another id unchanged in all five fields, and a note is destroyed only by a
\* delete naming its id or by clear(), which removes every note.
C26_OnlyOwnNote ==
  [][ \A i \in 1..Len(notes) :
        \/ Untouched(notes[i])
        \/ notes[i].id \in Ids(notes') /\ PutSucceeded(notes[i].id)
        \/ notes[i].id \notin Ids(notes') /\ DeleteSucceeded(notes[i].id)
        \/ notes' = <<>> /\ clearAllNotes ]_vars

\* the second of two notes was updated after the clock advanced; the first has
\* the fields of its creation
C26_Witness ==
  /\ res.message = "Note updated successfully"
  /\ res.data[1].id = 2
  /\ Len(notes) = 2
  /\ notes[2].title = <<>>
  /\ notes[2].updatedAt = now
  /\ notes[1].title = <<Run("a", 1)>>
  /\ notes[1].updatedAt < now

\* the payloads of SpecValidation that validateNote lets through
AcceptedWidePayloads == { payload \in WidePayloads : FailedCheck(ParseBody(payload)) = "none" }

\* C27: every payload accepted by create validation leads to a successful
\* store create: createNote does not throw for it, and the POST is answered
\* 201 and appends exactly one note at the end of the collection.
C27_AcceptedCreateSucceeds ==
  [][ \A payload \in AcceptedWidePayloads :
        /\ ~createNote(notes, TitleOf(payload), ContentOf(payload), issued + 1, now, now).threw
        /\ Post(payload)
             => /\ res'.status = 201
                /\ res'.success
                /\ Len(notes') = Len(notes) + 1
                /\ SubSeq(notes', 1, Len(notes)) = notes
                /\ res'.data = <<toJSON(notes'[Len(notes')])>> ]_vars

\* a create with a title of 200 characters was answered 201 and its note is
\* the last of the collection
C27_Witness ==
  /\ res.status = 201
  /\ Len(notes) = 1
  /\ StrLength(notes[1].title) = 200
  /\ res.data = <<toJSON(notes[1])>>

\* C28: list() and get(id) never modify the collection, whether the read
\* succeeds or fails; list() never fails and returns an empty sequence with
\* count 0 when the collection is empty.
C28_ReadsChangeNothing ==
  [][ /\ GetAll => /\ notes' = notes
                   /\ res'.status = 200
                   /\ res'.success
                   /\ Len(res'.data) = Len(notes)
                   /\ notes = <<>> => res'.data = <<>> /\ res'.count = 0
      /\ \A id \in RequestIds :
           GetOne(id) => /\ notes' = notes
                         /\ res'.status \in {200, 404}
                         /\ (res'.status = 404) = (id \notin Ids(notes)) ]_vars

\* list() was answered with the two notes of the collection, the first of
\* them at its place after an update
C28_Witness ==
  /\ res.message = "Notes retrieved successfully"
  /\ res.count = 2
  /\ Len(notes) = 2
  /\ res.data = <<toJSON(notes[1]), toJSON(notes[2])>>
  /\ notes[1].title = <<>>

\* C29: clear() succeeds in every state and leaves the collection empty:
\* immediately afterwards count() is 0, list() is empty, and get, update and
\* delete fail with NotFound for every id that was live before the clear.
C29_ClearEmpties ==
  [][ /\ ENABLED clearAllNotes
      /\ clearAllNotes
           => /\ getNotesCount(notes') = 0
              /\ getAllNotes(notes').value = <<>>
              /\ \A id \in Ids(notes) :
                   /\ getNoteById(notes', id).threw
                   /\ getNoteById(notes', id).err.message = MsgNotFound
                   /\ deleteNote(notes', id).threw
                   /\ deleteNote(notes', id).err.message = MsgNotFound
                   /\ \A payload \in Payloads :
                        /\ updateNote(notes', id, TitleOf(payload), ContentOf(payload), now').threw
                        /\ updateNote(notes', id, TitleOf(payload), ContentOf(payload),
                                      now').err.message = MsgNotFound ]_vars

\* the collection was cleared of two notes and a get of the first of them was
\* then answered 404
C29_Witness ==
  /\ notes = <<>>
  /\ issued = 2
  /\ deleted = {}
  /\ created = 0
  /\ res.status = 404

====
